---- MODULE Spec2Model ----
(***************************************************************************)
(* Model of src/src/query_korean_school/tool.py: the NEIS school-schedule  *)
(* tool (date normalizer, school resolver, schedule fetcher, timetable     *)
(* aggregator and the tool facade).                                        *)
(*                                                                         *)
(* Text is modelled as a sequence of one-character strings.  The module    *)
(* is ASCII only, so the three Hangul date units are written with ASCII    *)
(* stand-ins: "Y" for U+B144 (year), "M" for U+C6D4 (month) and "D" for    *)
(* U+C77C (day).  School names are sequences of syllable tokens with the   *)
(* stand-ins "cho","deung","hak","gyo","jung","go".                        *)
(***************************************************************************)
EXTENDS Integers, Sequences, FiniteSets, TLC

(***************************************************************************)
(* Characters and small text helpers                                       *)
(***************************************************************************)
\* F applied to the value of x: x is evaluated once, whatever F does with it
Bind(x, F(_)) == CHOOSE y \in {F(v) : v \in {x}} : TRUE

DigitChars == <<"0", "1", "2", "3", "4", "5", "6", "7", "8", "9">>

DigitValues == [c \in {DigitChars[i] : i \in 1..10} |-> (CHOOSE i \in 1..10 : DigitChars[i] = c) - 1]

IsDigit(c) == c \in DOMAIN DigitValues

DigitVal(c) == DigitValues[c]

IsSpace(c) == c = " "

At(s, i) == IF i >= 1 /\ i <= Len(s) THEN s[i] ELSE "EOS"

DigitAt(s, i) == IsDigit(At(s, i))

ValAt(s, i) == DigitVal(At(s, i))

InRange(s, i, lo, hi) == DigitAt(s, i) /\ ValAt(s, i) >= lo /\ ValAt(s, i) <= hi

RECURSIVE lstrip(_)
lstrip(text) ==
  Bind(text, LAMBDA s : IF s # <<>> /\ IsSpace(Head(s)) THEN lstrip(Tail(s)) ELSE s)

RECURSIVE rstrip(_)
rstrip(text) ==
  Bind(text, LAMBDA s :
    IF s # <<>> /\ IsSpace(s[Len(s)]) THEN rstrip(SubSeq(s, 1, Len(s) - 1)) ELSE s)

strip(s) == rstrip(lstrip(s))

isdigit(s) == s # <<>> /\ \A i \in 1..Len(s) : IsDigit(s[i])

\* re.sub(r"\D", "", s)
OnlyDigits(s) == SelectSeq(s, IsDigit)

(***************************************************************************)
(* Calendar validation done by datetime                                    *)
(***************************************************************************)
MINYEAR == 1
MAXYEAR == 9999

IsLeap(y) == (y % 4 = 0) /\ ((y % 100 # 0) \/ (y % 400 = 0))

DaysInMonth(y, m) ==
  IF m = 2 THEN (IF IsLeap(y) THEN 29 ELSE 28)
  ELSE IF m \in {4, 6, 9, 11} THEN 30 ELSE 31

ValidDate(y, m, d) ==
  /\ y >= MINYEAR /\ y <= MAXYEAR
  /\ m >= 1 /\ m <= 12
  /\ d >= 1 /\ d <= DaysInMonth(y, m)

(***************************************************************************)
(* The regular expressions behind datetime.strptime and re.search.         *)
(* A pattern is a sequence of tokens; every token has an ordered list of   *)
(* candidate matches at a position (the regex alternatives in priority     *)
(* order) and the matcher backtracks over them, as the re engine does.     *)
(***************************************************************************)
Cand(n, v) == [len |-> n, val |-> v]

Two(s, p) == 10 * ValAt(s, p) + ValAt(s, p + 1)

\* (?P<Y>\d\d\d\d)
CandsYear(s, p) ==
  IF \A i \in 0..3 : DigitAt(s, p + i)
  THEN <<Cand(4, 1000 * ValAt(s, p) + 100 * ValAt(s, p + 1) + 10 * ValAt(s, p + 2) + ValAt(s, p + 3))>>
  ELSE <<>>

\* (?P<m>1[0-2]|0[1-9]|[1-9])
CandsMonth(s, p) ==
  (IF (At(s, p) = "1" /\ InRange(s, p + 1, 0, 2)) \/ (At(s, p) = "0" /\ InRange(s, p + 1, 1, 9))
   THEN <<Cand(2, Two(s, p))>> ELSE <<>>)
  \o (IF InRange(s, p, 1, 9) THEN <<Cand(1, ValAt(s, p))>> ELSE <<>>)

\* (?P<d>3[0-1]|[1-2]\d|0[1-9]|[1-9]| [1-9])
CandsDay(s, p) ==
  (IF \/ (At(s, p) = "3" /\ InRange(s, p + 1, 0, 1))
      \/ (InRange(s, p, 1, 2) /\ DigitAt(s, p + 1))
      \/ (At(s, p) = "0" /\ InRange(s, p + 1, 1, 9))
   THEN <<Cand(2, Two(s, p))>> ELSE <<>>)
  \o (IF InRange(s, p, 1, 9) THEN <<Cand(1, ValAt(s, p))>> ELSE <<>>)
  \o (IF At(s, p) = " " /\ InRange(s, p + 1, 1, 9) THEN <<Cand(2, ValAt(s, p + 1))>> ELSE <<>>)

\* (?P<H>2[0-3]|[0-1]\d|\d)
CandsHour(s, p) ==
  (IF (At(s, p) = "2" /\ InRange(s, p + 1, 0, 3)) \/ (InRange(s, p, 0, 1) /\ DigitAt(s, p + 1))
   THEN <<Cand(2, Two(s, p))>> ELSE <<>>)
  \o (IF DigitAt(s, p) THEN <<Cand(1, ValAt(s, p))>> ELSE <<>>)

\* (?P<M>[0-5]\d|\d)
CandsMinute(s, p) ==
  (IF InRange(s, p, 0, 5) /\ DigitAt(s, p + 1) THEN <<Cand(2, Two(s, p))>> ELSE <<>>)
  \o (IF DigitAt(s, p) THEN <<Cand(1, ValAt(s, p))>> ELSE <<>>)

\* (?P<S>6[0-1]|[0-5]\d|\d)
CandsSecond(s, p) ==
  (IF (At(s, p) = "6" /\ InRange(s, p + 1, 0, 1)) \/ (InRange(s, p, 0, 5) /\ DigitAt(s, p + 1))
   THEN <<Cand(2, Two(s, p))>> ELSE <<>>)
  \o (IF DigitAt(s, p) THEN <<Cand(1, ValAt(s, p))>> ELSE <<>>)

\* (\d{1,2}), greedy
CandsDigits12(s, p) ==
  (IF DigitAt(s, p) /\ DigitAt(s, p + 1) THEN <<Cand(2, Two(s, p))>> ELSE <<>>)
  \o (IF DigitAt(s, p) THEN <<Cand(1, ValAt(s, p))>> ELSE <<>>)

\* number of white-space characters at position p
RECURSIVE SpaceRun(_, _)
SpaceRun(s, pos) ==
  Bind(pos, LAMBDA p : IF IsSpace(At(s, p)) THEN 1 + SpaceRun(s, p + 1) ELSE 0)

\* \s+ (min = 1) and \s* (min = 0), greedy: longest first
CandsSpaces(s, p, min) ==
  Bind(SpaceRun(s, p), LAMBDA n :
    IF n < min THEN <<>> ELSE [i \in 1..(n - min + 1) |-> Cand(n + 1 - i, 0)])

CandsLiteral(c, s, p) == IF At(s, p) = c THEN <<Cand(1, 0)>> ELSE <<>>

Cands(tok, s, p) ==
  CASE tok = "%Y" -> CandsYear(s, p)
    [] tok = "%m" -> CandsMonth(s, p)
    [] tok = "%d" -> CandsDay(s, p)
    [] tok = "%H" -> CandsHour(s, p)
    [] tok = "%M" -> CandsMinute(s, p)
    [] tok = "%S" -> CandsSecond(s, p)
    [] tok = "\\d{1,2}m" -> CandsDigits12(s, p)
    [] tok = "\\d{1,2}d" -> CandsDigits12(s, p)
    [] tok = "\\s+" -> CandsSpaces(s, p, 1)
    [] tok = "\\s*" -> CandsSpaces(s, p, 0)
    [] OTHER -> CandsLiteral(tok, s, p)

\* the group a token captures into
Group(tok) ==
  CASE tok = "%Y" -> "Y"
    [] tok \in {"%m", "\\d{1,2}m"} -> "m"
    [] tok \in {"%d", "\\d{1,2}d"} -> "d"
    [] tok = "%S" -> "S"
    [] OTHER -> "none"

NoGroups == [g \in {"Y", "m", "d", "S", "none"} |-> 0]

NoMatch == [ok |-> FALSE, end |-> 0, cap |-> NoGroups]

RECURSIVE Match(_, _, _, _, _)
RECURSIVE FirstOk(_, _, _, _, _, _, _)

\* first match, in backtracking order, of tokens k.. of pat at position p
Match(pat, k, s, p, cap) ==
  Bind(<<k, p, cap>>, LAMBDA a :
    IF a[1] > Len(pat) THEN [ok |-> TRUE, end |-> a[2], cap |-> a[3]]
    ELSE Bind(Cands(pat[a[1]], s, a[2]), LAMBDA cands :
           FirstOk(pat, a[1], s, a[2], a[3], cands, 1)))

\* the candidates of token k from the i-th on, each followed by the rest
FirstOk(pat, k, s, p, cap, cands, i) ==
  IF i > Len(cands) THEN NoMatch
  ELSE Bind(Match(pat, k + 1, s, p + cands[i].len,
                  [cap EXCEPT ![Group(pat[k])] = cands[i].val]),
            LAMBDA r : IF r.ok THEN r ELSE FirstOk(pat, k, s, p, cap, cands, i + 1))

\* re.search: leftmost start position at which the pattern matches
RECURSIVE Search(_, _, _)
Search(pat, s, start) ==
  IF start > Len(s) + 1 THEN NoMatch
  ELSE Bind(Match(pat, 1, s, start, NoGroups),
            LAMBDA r : IF r.ok THEN r ELSE Search(pat, s, start + 1))

(***************************************************************************)
(* datetime.strptime, datetime(...) and strftime                           *)
(***************************************************************************)
ParseFail == [ok |-> FALSE, y |-> 0, m |-> 0, d |-> 0]

\* datetime.strptime(s, fmt): the format's regex must match a prefix, the
\* match must cover the whole string, and the fields must form a datetime;
\* every failure is a ValueError.
strptime(s, fmt) ==
  Bind(Match(fmt, 1, s, 1, NoGroups), LAMBDA r :
    IF ~r.ok THEN ParseFail
    ELSE IF r.end # Len(s) + 1 THEN ParseFail
    ELSE IF ~ValidDate(r.cap["Y"], r.cap["m"], r.cap["d"]) \/ r.cap["S"] > 59 THEN ParseFail
    ELSE [ok |-> TRUE, y |-> r.cap["Y"], m |-> r.cap["m"], d |-> r.cap["d"]])

RECURSIVE NumStr(_)
NumStr(num) ==
  Bind(num, LAMBDA n :
    IF n < 10 THEN <<DigitChars[n + 1]>> ELSE NumStr(n \div 10) \o <<DigitChars[(n % 10) + 1]>>)

RECURSIVE ZeroPad(_, _)
ZeroPad(text, w) ==
  Bind(text, LAMBDA s : IF Len(s) >= w THEN s ELSE ZeroPad(<<"0">> \o s, w))

\* d.strftime("%Y%m%d").  %m and %d are always two digits; the C library
\* decides whether %Y is zero-padded to four digits (pad) or not (glibc).
strftime(y, m, d, pad) ==
  (IF pad THEN ZeroPad(NumStr(y), 4) ELSE NumStr(y)) \o ZeroPad(NumStr(m), 2) \o ZeroPad(NumStr(d), 2)

FMT_COMPACT == <<"%Y", "%m", "%d">>

DATE_FORMATS ==
  << <<"%Y", "-", "%m", "-", "%d">>,
     <<"%Y", "/", "%m", "/", "%d">>,
     <<"%Y", ".", "%m", ".", "%d">> >>

DATETIME_FORMATS ==
  << <<"%Y", "-", "%m", "-", "%d", "\\s+", "%H", ":", "%M">>,
     <<"%Y", "-", "%m", "-", "%d", "\\s+", "%H", ":", "%M", ":", "%S">>,
     <<"%Y", "/", "%m", "/", "%d", "\\s+", "%H", ":", "%M">>,
     <<"%Y", "/", "%m", "/", "%d", "\\s+", "%H", ":", "%M", ":", "%S">>,
     <<"%Y", ".", "%m", ".", "%d", "\\s+", "%H", ":", "%M">>,
     <<"%Y", ".", "%m", ".", "%d", "\\s+", "%H", ":", "%M", ":", "%S">>,
     <<"%Y", "-", "%m", "-", "%d", "T", "%H", ":", "%M">>,
     <<"%Y", "-", "%m", "-", "%d", "T", "%H", ":", "%M", ":", "%S">> >>

\* (\d{4})\s*Y\s*(\d{1,2})\s*M\s*(\d{1,2})\s*D
KOREAN_PATTERN ==
  <<"%Y", "\\s*", "Y", "\\s*", "\\d{1,2}m", "\\s*", "M", "\\s*", "\\d{1,2}d", "\\s*", "D">>

\* the parse by the first format of fmts, from the i-th on, that parses s
RECURSIVE FirstFormat(_, _, _)
FirstFormat(s, fmts, i) ==
  IF i > Len(fmts) THEN ParseFail
  ELSE Bind(strptime(s, fmts[i]), LAMBDA t : IF t.ok THEN t ELSE FirstFormat(s, fmts, i + 1))

(***************************************************************************)
(* _to_yyyymmdd                                                            *)
(***************************************************************************)
DATE_LEN == 8

Returned(v) == [ok |-> TRUE, value |-> v, err |-> "none"]

ValueError(e) == [ok |-> FALSE, value |-> <<>>, err |-> e]

\* mutant: the first eight digits are returned without validation
Fallback_Unvalidated(s) ==
  Bind(OnlyDigits(s), LAMBDA digits :
    IF Len(digits) >= DATE_LEN
    THEN Returned(SubSeq(digits, 1, DATE_LEN))
    ELSE ValueError("unsupported date format"))

\* lines 71-81: first eight digits of the input, if they are a date
Fallback(s) ==
  Bind(OnlyDigits(s), LAMBDA digits :
    IF Len(digits) >= DATE_LEN /\ strptime(SubSeq(digits, 1, DATE_LEN), FMT_COMPACT).ok
    THEN Returned(SubSeq(digits, 1, DATE_LEN))
    ELSE ValueError("unsupported date format"))

\* lines 64-69: the Korean long form; datetime(y, mm, dd) is not guarded
KoreanForm(s, pad) ==
  Bind(Search(KOREAN_PATTERN, s, 1), LAMBDA k :
    IF k.ok
    THEN IF ValidDate(k.cap["Y"], k.cap["m"], k.cap["d"])
         THEN Returned(strftime(k.cap["Y"], k.cap["m"], k.cap["d"], pad))
         ELSE ValueError("datetime out of range")
    ELSE Fallback(s))

\* lines 39-62: the explicit date and date-time formats
ExplicitForms(s, pad) ==
  Bind(FirstFormat(s, DATE_FORMATS, 1), LAMBDA d :
    IF d.ok THEN Returned(strftime(d.y, d.m, d.d, pad))
    ELSE Bind(FirstFormat(s, DATETIME_FORMATS, 1), LAMBDA t :
           IF t.ok THEN Returned(strftime(t.y, t.m, t.d, pad))
           ELSE KoreanForm(s, pad)))

\* lines 33-37: an all-digit string of length 8 is validated and returned
\* unchanged; strptime's ValueError is not caught here
FastPath(s) ==
  IF strptime(s, FMT_COMPACT).ok THEN Returned(s) ELSE ValueError("strptime")

_to_yyyymmdd(date_str, pad) ==
  Bind(strip(date_str), LAMBDA s :
    IF s = <<>> THEN ValueError("empty date string")
    ELSE IF isdigit(s) /\ Len(s) = DATE_LEN THEN FastPath(s)
    ELSE ExplicitForms(s, pad))

(***************************************************************************)
(* _detect_school_level                                                    *)
(***************************************************************************)
ELEMENTARY == <<"cho", "deung", "hak", "gyo">>
MIDDLE == <<"jung", "hak", "gyo">>
HIGH == <<"go", "deung", "hak", "gyo">>

\* sub in name
Contains(name, sub) ==
  \E i \in 0..(Len(name) - Len(sub)) : SubSeq(name, i + 1, i + Len(sub)) = sub

_detect_school_level(school_name) ==
  LET name == strip(school_name)
  IN  IF Contains(name, ELEMENTARY) THEN "elementary"
      ELSE IF Contains(name, MIDDLE) THEN "middle"
      ELSE IF Contains(name, HIGH) THEN "high"
      ELSE "None"

(***************************************************************************)
(* The NEIS API as the code sees it.  A response is                        *)
(*   kind = "transport_error"   requests.get raises                        *)
(*          "not_json"          response.json() raises                     *)
(*          "not_object"        the body is JSON but not an object         *)
(*          "result_not_object" RESULT is present and is not an object     *)
(*          "api_error"         RESULT.CODE is present                     *)
(*          "payload"           no RESULT.CODE                             *)
(* and for a payload, top says what data.get(<endpoint>, [])[-1].get('row',*)
(* []) meets:                                                              *)
(*   "key_missing"      the endpoint key is absent: [][-1]                 *)
(*   "empty_list"       the endpoint list is empty                         *)
(*   "not_indexable"    the endpoint value cannot be indexed with -1       *)
(*   "last_not_object"  the last element has no .get                       *)
(*   "row_missing"      the last element has no 'row' key                  *)
(*   "row_not_iterable" 'row' is null or a number                          *)
(*   "rows"             'row' is the list rows                             *)
(* A row is an object (is_object) or any other JSON value.  "None" stands  *)
(* for Python's None.                                                      *)
(***************************************************************************)
None == "None"

URL_SCHOOL_INFO == "http://open.neis.go.kr/hub/schoolInfo"
URL_SCHOOL_SCHEDULE == "http://open.neis.go.kr/hub/SchoolSchedule"

MISSING_KEY_MESSAGE == "Missing NEIS service key. Set NEIS_SERVICE_KEY or SERVICE_KEY in environment."

\* mutant: the key is never found missing
KeyMissing_Never(key) == FALSE

\* lines 99 and 157: not SERVICE_KEY
KeyMissing(key) == key = ""

ResponseRaises(resp) ==
  resp.kind \in {"transport_error", "not_json", "not_object", "result_not_object"}

\* data.get(<endpoint>, [])[-1].get('row', []) raises
ExtractRaises(resp) ==
  resp.top \in {"key_missing", "empty_list", "not_indexable", "last_not_object"}

\* the list the for loop runs over
RowList(resp) == IF resp.top = "rows" THEN resp.rows ELSE <<>>

(***************************************************************************)
(* get_school_info                                                         *)
(***************************************************************************)
SchoolInfoResult(valid, message) ==
  [valid |-> valid, message |-> message, school_num |-> 0,
   school_name |-> <<>>, school_code |-> <<>>, org_name |-> <<>>, org_code |-> <<>>]

\* lines 132-136: the for loop over the rows; a row without .get raises
RECURSIVE InfoRowLoop(_, _)
InfoRowLoop(rows, acc) ==
  Bind(<<rows, acc>>, LAMBDA a :
    IF a[1] = <<>> THEN [raised |-> FALSE, acc |-> a[2]]
    ELSE IF ~Head(a[1]).is_object THEN [raised |-> TRUE, acc |-> a[2]]
    ELSE InfoRowLoop(Tail(a[1]),
           [a[2] EXCEPT !.school_name = Append(@, Head(a[1]).SCHUL_NM),
                        !.school_code = Append(@, Head(a[1]).SD_SCHUL_CODE),
                        !.org_name = Append(@, Head(a[1]).ATPT_OFCDC_SC_NM),
                        !.org_code = Append(@, Head(a[1]).ATPT_OFCDC_SC_CODE)]))

\* lines 140-148: the except block
InfoExcept(acc) == SchoolInfoResult(FALSE, "Error parsing school info")

\* lines 129-148: the success payload
InfoParse(resp, init) ==
  IF ExtractRaises(resp) THEN InfoExcept(init)
  ELSE IF resp.top = "row_not_iterable" THEN InfoExcept(init)
  ELSE Bind(InfoRowLoop(RowList(resp), init), LAMBDA l :
         IF l.raised THEN InfoExcept(l.acc)
         ELSE [l.acc EXCEPT !.valid = TRUE, !.message = "Success to find",
                            !.school_num = Len(RowList(resp))])

InfoRequest(school_name) ==
  [url |-> URL_SCHOOL_INFO, pSize |-> "100", SCHUL_NM |-> school_name]

\* the whole function: what it returns (or that it raises) and the HTTP
\* requests it issues
get_school_info(school_name, key, resp) ==
  IF KeyMissing(key) THEN [raised |-> FALSE, http |-> <<>>, result |-> SchoolInfoResult(FALSE, MISSING_KEY_MESSAGE)]
  ELSE LET init == SchoolInfoResult(FALSE, "Initialized")
           req == <<InfoRequest(school_name)>>
       IN  IF ResponseRaises(resp) THEN [raised |-> TRUE, http |-> req, result |-> init]
           ELSE IF resp.kind = "api_error"
           THEN [raised |-> FALSE, http |-> req, result |-> [init EXCEPT !.message = resp.message]]
           ELSE [raised |-> FALSE, http |-> req, result |-> InfoParse(resp, init)]

(***************************************************************************)
(* get_school_schedule                                                     *)
(***************************************************************************)
NUM_GRADES == 6

ScheduleResult(valid, message) ==
  [valid |-> valid, message |-> message, schedule_num |-> 0,
   event_date |-> <<>>, event_name |-> <<>>, event_type |-> <<>>, event_content |-> <<>>,
   valid_grade |-> [g \in 1..NUM_GRADES |-> <<>>]]

\* str(v): None prints as the text None
Str(v) == IF v = None THEN "None_text" ELSE v

upper(v) == CASE v = "y" -> "Y" [] v = "n" -> "N" [] v = "None_text" -> "NONE" [] OTHER -> v

\* str(schedule.get(<flag>, '')).upper() == 'Y'
GradeFlag(raw) == upper(Str(raw)) = "Y"

\* lines 194-204: the for loop over the rows
RECURSIVE ScheduleRowLoop(_, _)
ScheduleRowLoop(rows, acc) ==
  Bind(<<rows, acc>>, LAMBDA a :
    IF a[1] = <<>> THEN [raised |-> FALSE, acc |-> a[2]]
    ELSE IF ~Head(a[1]).is_object THEN [raised |-> TRUE, acc |-> a[2]]
    ELSE ScheduleRowLoop(Tail(a[1]),
           [a[2] EXCEPT !.event_date = Append(@, Head(a[1]).AA_YMD),
                        !.event_name = Append(@, Head(a[1]).EVENT_NM),
                        !.event_type = Append(@, Head(a[1]).SBTR_DD_SC_NM),
                        !.event_content = Append(@, Head(a[1]).EVENT_CNTNT),
                        !.valid_grade = [g \in 1..NUM_GRADES |->
                                           Append(@[g], GradeFlag(Head(a[1]).flags[g]))]]))

\* lines 208-212: the except block; the lists are left as they are
ScheduleExcept(acc) ==
  [acc EXCEPT !.valid = FALSE, !.message = "Error parsing school schedule", !.schedule_num = 0]

\* lines 191-212: the success payload
ScheduleParse(resp, init) ==
  IF ExtractRaises(resp) THEN ScheduleExcept(init)
  ELSE IF resp.top = "row_not_iterable" THEN ScheduleExcept(init)
  ELSE Bind(ScheduleRowLoop(RowList(resp), init), LAMBDA l :
         IF l.raised THEN ScheduleExcept(l.acc)
         ELSE [l.acc EXCEPT !.valid = TRUE, !.message = "Success to find",
                            !.schedule_num = Len(RowList(resp))])

ScheduleRequest(school_code, org_code, from, to) ==
  [url |-> URL_SCHOOL_SCHEDULE, pSize |-> "100", SD_SCHUL_CODE |-> school_code,
   ATPT_OFCDC_SC_CODE |-> org_code, AA_FROM_YMD |-> from, AA_TO_YMD |-> to]

get_school_schedule(school_code, org_code, from, to, key, resp) ==
  IF KeyMissing(key) THEN [raised |-> FALSE, http |-> <<>>, result |-> ScheduleResult(FALSE, MISSING_KEY_MESSAGE)]
  ELSE LET init == ScheduleResult(FALSE, "Initialized")
           req == <<ScheduleRequest(school_code, org_code, from, to)>>
       IN  IF ResponseRaises(resp) THEN [raised |-> TRUE, http |-> req, result |-> init]
           ELSE IF resp.kind = "api_error"
           THEN [raised |-> FALSE, http |-> req,
                 result |-> [init EXCEPT !.message = resp.message, !.schedule_num = 0]]
           ELSE [raised |-> FALSE, http |-> req, result |-> ScheduleParse(resp, init)]

(***************************************************************************)
(* get_school_timetable: the pieces between its two calls                  *)
(***************************************************************************)
MAX_GRADE_INDEX == 5

Min(a, b) == IF a < b THEN a ELSE b
Max(a, b) == IF a > b THEN a ELSE b

\* line 224: max(0, min(5, g-1))
ClampGrade(g) == Max(0, Min(MAX_GRADE_INDEX, g - 1))

TargetGrade(grade) == [i \in 1..Len(grade) |-> ClampGrade(grade[i])]

\* mutant: the organization filter is ignored
Accepts_NoFilter(school_info, idx, target_org) == TRUE

\* mutant: the comparison with the filter is inverted
Accepts_Inverted(school_info, idx, target_org) ==
  target_org = None \/ school_info.org_name[idx] # target_org

\* line 229
Accepts(school_info, idx, target_org) ==
  target_org = None \/ school_info.org_name[idx] = target_org

\* lines 227-229: the first idx, in resolver order, that passes the filter
\* (indices are 1-based here); 0 when the loop ends without one
RECURSIVE FirstAccepted(_, _, _)
FirstAccepted(school_info, idx, target_org) ==
  IF idx > school_info.school_num THEN 0
  ELSE IF Accepts(school_info, idx, target_org) THEN idx
  ELSE FirstAccepted(school_info, idx + 1, target_org)

\* mutant: the grade index is reported instead of the grade
Item_GradeIndex(school_info, idx, schedule_info, sch_idx, g) ==
  [school_name |-> school_info.school_name[idx],
   event_date |-> schedule_info.event_date[sch_idx],
   event_name |-> schedule_info.event_name[sch_idx],
   event_type |-> schedule_info.event_type[sch_idx],
   event_content |-> schedule_info.event_content[sch_idx],
   grade |-> g]

\* lines 238-245
Item(school_info, idx, schedule_info, sch_idx, g) ==
  [school_name |-> school_info.school_name[idx],
   event_date |-> schedule_info.event_date[sch_idx],
   event_name |-> schedule_info.event_name[sch_idx],
   event_type |-> schedule_info.event_type[sch_idx],
   event_content |-> schedule_info.event_content[sch_idx],
   grade |-> g + 1]

\* lines 236-245: the inner loop over the events, for one grade index g
RECURSIVE EventLoop(_, _, _, _, _)
EventLoop(school_info, idx, schedule_info, g, sch_idx) ==
  IF sch_idx > schedule_info.schedule_num THEN <<>>
  ELSE (IF schedule_info.valid_grade[g + 1][sch_idx]
        THEN <<Item(school_info, idx, schedule_info, sch_idx, g)>> ELSE <<>>)
       \o EventLoop(school_info, idx, schedule_info, g, sch_idx + 1)

\* lines 235-245: the outer loop over target_grade
RECURSIVE GradeLoop(_, _, _, _, _)
GradeLoop(school_info, idx, schedule_info, target_grade, k) ==
  IF k > Len(target_grade) THEN <<>>
  ELSE EventLoop(school_info, idx, schedule_info, target_grade[k], 1)
       \o GradeLoop(school_info, idx, schedule_info, target_grade, k + 1)

\* line 234
HasEvents(schedule_info) == schedule_info.valid /\ schedule_info.schedule_num > 0

\* lines 234-245
Collect(school_info, idx, schedule_info, target_grade) ==
  IF HasEvents(schedule_info)
  THEN GradeLoop(school_info, idx, schedule_info, target_grade, 1)
  ELSE <<>>

\* line 226
HasMatches(school_info) == school_info.valid /\ school_info.school_num > 0

(***************************************************************************)
(* QueryKoreanSchoolTool._run: grade defaulting and the error object       *)
(***************************************************************************)
\* lines 296-304
DefaultGrades(school_name, grade) ==
  IF ~grade.given
  THEN IF _detect_school_level(school_name) = "elementary"
       THEN <<1, 2, 3, 4, 5, 6>> ELSE <<1, 2, 3>>
  ELSE grade.list

\* line 311
DateError(e) ==
  [shape |-> "dict", valid |-> FALSE, message |-> <<"date format error", e>>, schedules |-> <<>>]

ListResult(items) == [shape |-> "list", items |-> items]

(***************************************************************************)
(* Bounds and the inputs the model draws from                              *)
(***************************************************************************)
MaxSchools == 2
MaxEvents == 2
MaxGrades == 2

SeqsUpTo(S, n) == UNION {[1..k -> S] : k \in 0..n}

ServiceKeys == {"", "KEY"}

SchoolNames ==
  { <<"eun", "bit", "cho", "deung", "hak", "gyo">>,
    <<"seo", "ul", "jung", "hak", "gyo">> }

TargetOrgs == {None, "orgB"}

GradeValues == {0, 1, 7}

GradeLists == SeqsUpTo(GradeValues, MaxGrades)

\* grade of _run: omitted, or a list (passed on unchanged, line 304; the lists
\* of several grades are the direct calls' of get_school_timetable)
GradeArgs ==
  {[given |-> FALSE, list |-> <<>>]}
  \cup {[given |-> TRUE, list |-> l] : l \in SeqsUpTo(GradeValues, 1)}

\* from_date values of _run: compact, Korean long form, non-calendrical
FromDates ==
  { <<"2", "0", "2", "5", "1", "0", "0", "1">>,
    <<"2", "0", "2", "5", "Y", " ", "1", "0", "M", " ", "1", "D">>,
    <<"2", "0", "2", "5", "1", "3", "3", "2">> }

\* to_date values of _run: date with time, empty
ToDates ==
  { <<"2", "0", "2", "5", "-", "1", "0", "-", "3", "0", " ", "0", "9", ":", "3", "0">>,
    <<" ">> }


SchoolRow(name, code, org, org_code) ==
  [is_object |-> TRUE, SCHUL_NM |-> name, SD_SCHUL_CODE |-> code,
   ATPT_OFCDC_SC_NM |-> org, ATPT_OFCDC_SC_CODE |-> org_code]

NonObjectSchoolRow ==
  [is_object |-> FALSE, SCHUL_NM |-> None, SD_SCHUL_CODE |-> None,
   ATPT_OFCDC_SC_NM |-> None, ATPT_OFCDC_SC_CODE |-> None]

SchoolRows ==
  { SchoolRow("eunbit", "7010574", "orgA", "J10"),
    SchoolRow("eunbit", "7150001", "orgB", "B10"),
    NonObjectSchoolRow }

EventRow(date, name, type, content, flags) ==
  [is_object |-> TRUE, AA_YMD |-> date, EVENT_NM |-> name, SBTR_DD_SC_NM |-> type,
   EVENT_CNTNT |-> content, flags |-> flags]

NonObjectEventRow ==
  [is_object |-> FALSE, AA_YMD |-> None, EVENT_NM |-> None, SBTR_DD_SC_NM |-> None,
   EVENT_CNTNT |-> None, flags |-> <<"", "", "", "", "", "">>]

\* the six raw flags: "" is a missing key, None a null
EventRows ==
  { EventRow("20251015", "anniversary", "holiday", "founding day", <<"Y", "y", "N", "", None, "N">>),
    EventRow("20251020", "midterm", "class day", None, <<"N", "Y", "n", "N", "N", "Y">>),
    NonObjectEventRow }

FailureKinds == {"transport_error", "not_json", "not_object", "result_not_object", "api_error"}

PayloadTops ==
  {"key_missing", "empty_list", "not_indexable", "last_not_object", "row_missing", "row_not_iterable"}

Response(kind, message, top, rows) == [kind |-> kind, message |-> message, top |-> top, rows |-> rows]

Responses(rowSeqs) ==
  {Response(k, IF k = "api_error" THEN "INFO-200 no data" ELSE "", "none", <<>>) : k \in FailureKinds}
  \cup {Response("payload", "", t, <<>>) : t \in PayloadTops}
  \cup {Response("payload", "", "rows", r) : r \in rowSeqs}

InfoResponses == Responses(SeqsUpTo(SchoolRows, MaxSchools))

ScheduleResponses == Responses(SeqsUpTo(EventRows, MaxEvents))

(***************************************************************************)
(* State                                                                   *)
(***************************************************************************)
VARIABLES
  SERVICE_KEY,    \* the module-level key read from the environment
  entry,          \* the function the caller invoked
  pc,             \* where the invocation is
  run_args,       \* arguments of _run
  args,           \* arguments of get_school_timetable
  callee_args,    \* arguments of the pending get_school_info / get_school_schedule call
  target_grade, school_info, idx, schedule_info, result_value,   \* locals of get_school_timetable
  tt_returned, tt_ret,    \* get_school_timetable has returned, and what
  run_ret,        \* what _run returned
  outcome,        \* "none", "returned" or "raised": how the invocation ended
  http,           \* the HTTP requests issued, in order
  api,            \* the responses the API gave to them, in order
  calls,          \* the calls made inside the invocation, in order
  date_in, date_out,  \* input and result of a direct _to_yyyymmdd call
  date_parts          \* what date_in was put together from

vars ==
  <<SERVICE_KEY, entry, pc, run_args, args, callee_args, target_grade, school_info, idx,
    schedule_info, result_value, tt_returned, tt_ret, run_ret, outcome, http, api, calls,
    date_in, date_out, date_parts>>

NoArgs == [none |-> TRUE]

Init ==
  /\ SERVICE_KEY \in ServiceKeys
  /\ entry = "none"
  /\ pc = "idle"
  /\ run_args = NoArgs
  /\ args = NoArgs
  /\ callee_args = NoArgs
  /\ target_grade = <<>>
  /\ school_info = SchoolInfoResult(FALSE, "unset")
  /\ idx = 0
  /\ schedule_info = ScheduleResult(FALSE, "unset")
  /\ result_value = <<>>
  /\ tt_returned = FALSE
  /\ tt_ret = <<>>
  /\ run_ret = [shape |-> "none"]
  /\ outcome = "none"
  /\ http = <<>>
  /\ api = <<>>
  /\ calls = <<>>
  /\ date_in = <<>>
  /\ date_out = ValueError("unset")
  /\ date_parts = NoArgs

Call(fn, a) == [fn |-> fn, args |-> a]

TimetableArgs(school_name, from, to, grade, target_org) ==
  [school_name |-> school_name, from_date |-> from, to_date |-> to,
   grade |-> grade, target_org |-> target_org]

(***************************************************************************)
(* QueryKoreanSchoolTool._run, lines 282-313, up to the call of            *)
(* get_school_timetable                                                    *)
(***************************************************************************)
\* mutant: a failure of to_date is not noticed
Normalize_FromOnly(from_date, to_date, pad) ==
  Bind(<<_to_yyyymmdd(from_date, pad), _to_yyyymmdd(to_date, pad)>>, LAMBDA n :
    IF ~n[1].ok THEN [ok |-> FALSE, err |-> n[1].err, from |-> <<>>, to |-> <<>>]
    ELSE [ok |-> TRUE, err |-> "none", from |-> n[1].value, to |-> n[2].value])

\* lines 307-311: the first date that fails decides the error
Normalize(from_date, to_date, pad) ==
  Bind(<<_to_yyyymmdd(from_date, pad), _to_yyyymmdd(to_date, pad)>>, LAMBDA n :
    IF ~n[1].ok THEN [ok |-> FALSE, err |-> n[1].err, from |-> <<>>, to |-> <<>>]
    ELSE IF ~n[2].ok THEN [ok |-> FALSE, err |-> n[2].err, from |-> <<>>, to |-> <<>>]
    ELSE [ok |-> TRUE, err |-> "none", from |-> n[1].value, to |-> n[2].value])

Invoke_run(school_name, from_date, to_date, grade, target_org) ==
  /\ pc = "idle"
  /\ entry' = "_run"
  /\ run_args' = [school_name |-> school_name, from_date |-> from_date, to_date |-> to_date,
                  grade |-> grade, target_org |-> target_org]
  /\ \E pad \in BOOLEAN :
       \E n \in {Normalize(from_date, to_date, pad)} :
         IF ~n.ok
         THEN /\ run_ret' = DateError(n.err)
              /\ outcome' = "returned"
              /\ pc' = "done"
              /\ UNCHANGED <<args, calls>>
         ELSE /\ args' = TimetableArgs(school_name, n.from, n.to,
                                       DefaultGrades(school_name, grade), target_org)
              /\ calls' = Append(calls, Call("get_school_timetable", args'))
              /\ pc' = "get_school_timetable"
              /\ UNCHANGED <<run_ret, outcome>>
  /\ UNCHANGED <<SERVICE_KEY, callee_args, target_grade, school_info, idx, schedule_info,
                 result_value, tt_returned, tt_ret, http, api, date_in, date_out, date_parts>>

(***************************************************************************)
(* Direct invocations of the module's functions                            *)
(***************************************************************************)
Invoke_get_school_timetable(school_name, from, to, grade, target_org) ==
  /\ pc = "idle"
  /\ entry' = "get_school_timetable"
  /\ args' = TimetableArgs(school_name, from, to, grade, target_org)
  /\ calls' = Append(calls, Call("get_school_timetable", args'))
  /\ pc' = "get_school_timetable"
  /\ UNCHANGED <<SERVICE_KEY, run_args, callee_args, target_grade, school_info, idx,
                 schedule_info, result_value, tt_returned, tt_ret, run_ret, outcome, http, api,
                 date_in, date_out, date_parts>>

Invoke_get_school_info(school_name) ==
  /\ pc = "idle"
  /\ entry' = "get_school_info"
  /\ callee_args' = [school_name |-> school_name]
  /\ calls' = Append(calls, Call("get_school_info", callee_args'))
  /\ pc' = "get_school_info"
  /\ UNCHANGED <<SERVICE_KEY, run_args, args, target_grade, school_info, idx, schedule_info,
                 result_value, tt_returned, tt_ret, run_ret, outcome, http, api, date_in, date_out, date_parts>>

ScheduleArgs(school_code, org_code, from, to) ==
  [school_code |-> school_code, org_code |-> org_code, from_date |-> from, to_date |-> to]

Invoke_get_school_schedule(school_code, org_code, from, to) ==
  /\ pc = "idle"
  /\ entry' = "get_school_schedule"
  /\ callee_args' = ScheduleArgs(school_code, org_code, from, to)
  /\ calls' = Append(calls, Call("get_school_schedule", callee_args'))
  /\ pc' = "get_school_schedule"
  /\ UNCHANGED <<SERVICE_KEY, run_args, args, target_grade, school_info, idx, schedule_info,
                 result_value, tt_returned, tt_ret, run_ret, outcome, http, api, date_in, date_out, date_parts>>

(***************************************************************************)
(* get_school_timetable, lines 222-248                                     *)
(***************************************************************************)
\* lines 223-225: up to the call of get_school_info
TimetableBegin ==
  /\ pc = "get_school_timetable"
  /\ result_value' = <<>>
  /\ target_grade' = TargetGrade(args.grade)
  /\ callee_args' = [school_name |-> args.school_name]
  /\ calls' = Append(calls, Call("get_school_info", callee_args'))
  /\ pc' = "get_school_info"
  /\ UNCHANGED <<SERVICE_KEY, entry, run_args, args, school_info, idx, schedule_info,
                 tt_returned, tt_ret, run_ret, outcome, http, api, date_in, date_out, date_parts>>

\* an exception leaves get_school_info / get_school_schedule: no caller
\* catches it, so it ends the invocation
Raise ==
  /\ outcome' = "raised"
  /\ pc' = "done"

\* return of get_school_timetable (line 248) to its caller
TimetableReturn(value) ==
  /\ tt_returned' = TRUE
  /\ tt_ret' = value
  /\ IF entry = "_run"
     THEN pc' = "run_return" /\ UNCHANGED outcome
     ELSE pc' = "done" /\ outcome' = "returned"

\* lines 98-154, the whole function, for the response the API gives
GetSchoolInfo ==
  /\ pc = "get_school_info"
  /\ \E resp \in InfoResponses :
       \E r \in {get_school_info(callee_args.school_name, SERVICE_KEY, resp)} :
           /\ http' = http \o r.http
           /\ api' = IF r.http = <<>> THEN api ELSE Append(api, resp)
           /\ IF r.raised
              THEN Raise /\ UNCHANGED school_info
              ELSE /\ school_info' = r.result
                   /\ IF entry = "get_school_info"
                      THEN pc' = "done" /\ outcome' = "returned"
                      ELSE pc' = "select" /\ UNCHANGED outcome
  /\ UNCHANGED <<SERVICE_KEY, entry, run_args, args, callee_args, target_grade, idx,
                 schedule_info, result_value, tt_returned, tt_ret, run_ret, calls,
                 date_in, date_out, date_parts>>

\* lines 226-233: the loop up to the call of get_school_schedule, or the
\* return at line 248 when no school is queried
TimetableSelect ==
  /\ pc = "select"
  /\ \E first \in {IF HasMatches(school_info)
                     THEN FirstAccepted(school_info, 1, args.target_org) ELSE 0} :
         IF first = 0
         THEN /\ TimetableReturn(result_value)
              /\ UNCHANGED <<idx, callee_args, calls>>
         ELSE /\ idx' = first
              /\ callee_args' = ScheduleArgs(school_info.school_code[first],
                                             school_info.org_code[first],
                                             args.from_date, args.to_date)
              /\ calls' = Append(calls, Call("get_school_schedule", callee_args'))
              /\ pc' = "get_school_schedule"
              /\ UNCHANGED <<tt_returned, tt_ret, outcome>>
  /\ UNCHANGED <<SERVICE_KEY, entry, run_args, args, target_grade, school_info,
                 schedule_info, result_value, run_ret, http, api, date_in, date_out, date_parts>>

\* lines 156-219, the whole function, for the response the API gives
GetSchoolSchedule ==
  /\ pc = "get_school_schedule"
  /\ \E resp \in ScheduleResponses :
       \E r \in {get_school_schedule(callee_args.school_code, callee_args.org_code,
                                     callee_args.from_date, callee_args.to_date,
                                     SERVICE_KEY, resp)} :
           /\ http' = http \o r.http
           /\ api' = IF r.http = <<>> THEN api ELSE Append(api, resp)
           /\ IF r.raised
              THEN Raise /\ UNCHANGED schedule_info
              ELSE /\ schedule_info' = r.result
                   /\ IF entry = "get_school_schedule"
                      THEN pc' = "done" /\ outcome' = "returned"
                      ELSE pc' = "collect" /\ UNCHANGED outcome
  /\ UNCHANGED <<SERVICE_KEY, entry, run_args, args, callee_args, target_grade, school_info,
                 idx, result_value, tt_returned, tt_ret, run_ret, calls, date_in, date_out, date_parts>>

\* lines 234-248: the two loops, the break and the return
TimetableCollect ==
  /\ pc = "collect"
  /\ result_value' = result_value \o Collect(school_info, idx, schedule_info, target_grade)
  /\ TimetableReturn(result_value')
  /\ UNCHANGED <<SERVICE_KEY, entry, run_args, args, callee_args, target_grade, school_info,
                 idx, schedule_info, run_ret, http, api, calls, date_in, date_out, date_parts>>

\* line 313: _run returns what get_school_timetable returned
RunResult(value) == ListResult(value)

RunReturn ==
  /\ pc = "run_return"
  /\ run_ret' = RunResult(tt_ret)
  /\ outcome' = "returned"
  /\ pc' = "done"
  /\ UNCHANGED <<SERVICE_KEY, entry, run_args, args, callee_args, target_grade, school_info,
                 idx, schedule_info, result_value, tt_returned, tt_ret, http, api, calls,
                 date_in, date_out, date_parts>>

(***************************************************************************)
(* The specification of the tool                                           *)
(***************************************************************************)
\* school name and normalized dates for direct calls of get_school_timetable
\* and get_school_schedule
QueryName == <<"eun", "bit", "cho", "deung", "hak", "gyo">>
QueryFrom == <<"2", "0", "2", "5", "1", "0", "0", "1">>
QueryTo == <<"2", "0", "2", "5", "1", "0", "3", "0">>

Next ==
  \/ \E n \in SchoolNames, f \in FromDates, t \in ToDates, g \in GradeArgs, o \in TargetOrgs :
       Invoke_run(n, f, t, g, o)
  \/ \E g \in GradeLists, o \in TargetOrgs :
       Invoke_get_school_timetable(QueryName, QueryFrom, QueryTo, g, o)
  \/ \E n \in SchoolNames : Invoke_get_school_info(n)
  \/ \E r \in {x \in SchoolRows : x.is_object} :
       Invoke_get_school_schedule(r.SD_SCHUL_CODE, r.ATPT_OFCDC_SC_CODE, QueryFrom, QueryTo)
  \/ TimetableBegin
  \/ GetSchoolInfo
  \/ TimetableSelect
  \/ GetSchoolSchedule
  \/ TimetableCollect
  \/ RunReturn

Spec == Init /\ [][Next]_vars

(***************************************************************************)
(* The specification of the date normalizer alone: _to_yyyymmdd applied    *)
(* to date texts put together from a year, a month, a day, the separators  *)
(* of one written form and a suffix.                                       *)
(***************************************************************************)
DateYears ==
  { <<"2", "0", "2", "5">>,
    <<"2", "0", "2", "4">>,
    <<"0", "9", "9", "9">> }

DateMonths ==
  { <<"1">>,
    <<"0", "2">>,
    <<"1", "3">>,
    <<"0">> }

DateDays ==
  { <<"6">>,
    <<"0", "6">>,
    <<"2", "9">>,
    <<"3", "0">>,
    <<"3", "2">> }

\* a time of day, the Korean day unit, other text
DateSuffixes ==
  { <<>>,
    <<" ", "1", "2", ":", "3", "0">>,
    <<"T", "0", "9", ":", "3", "0", ":", "0", "0">>,
    <<"D">>,
    <<"x">> }

\* the separators after the year and after the month
DateForms ==
  { [name |-> "compact", sep1 |-> <<>>, sep2 |-> <<>>],
    [name |-> "dash", sep1 |-> <<"-">>, sep2 |-> <<"-">>],
    [name |-> "slash", sep1 |-> <<"/">>, sep2 |-> <<"/">>],
    [name |-> "dot", sep1 |-> <<".">>, sep2 |-> <<".">>],
    [name |-> "korean", sep1 |-> <<"Y">>, sep2 |-> <<"M">>],
    [name |-> "korean spaced", sep1 |-> <<"Y", " ">>, sep2 |-> <<" ", "M", " ">>],
    [name |-> "mixed", sep1 |-> <<"-">>, sep2 |-> <<"/">>] }

DateText(form, y, m, d, suffix) == y \o form.sep1 \o m \o form.sep2 \o d \o suffix

\* one call of _to_yyyymmdd
NormalizeDate(form, y, m, d, suffix) ==
  /\ pc = "idle"
  /\ entry' = "_to_yyyymmdd"
  /\ date_parts' = [form |-> form.name, y |-> y, m |-> m, d |-> d, suffix |-> suffix]
  /\ date_in' = DateText(form, y, m, d, suffix)
  /\ \E pad \in BOOLEAN : date_out' = _to_yyyymmdd(DateText(form, y, m, d, suffix), pad)
  /\ outcome' = IF date_out'.ok THEN "returned" ELSE "raised"
  /\ pc' = "done"
  /\ UNCHANGED <<SERVICE_KEY, run_args, args, callee_args, target_grade, school_info, idx,
                 schedule_info, result_value, tt_returned, tt_ret, run_ret, http, api, calls>>

DateNext ==
  \E form \in DateForms, y \in DateYears, m \in DateMonths, d \in DateDays, x \in DateSuffixes :
    NormalizeDate(form, y, m, d, x)

DateSpec == Init /\ [][DateNext]_vars

(***************************************************************************)
(* Properties                                                              *)
(***************************************************************************)
InTimetable == entry \in {"_run", "get_school_timetable"}

\* positions in calls of the calls of fn
CallsOf(fn) == {i \in 1..Len(calls) : calls[i].fn = fn}

FilterPasses(i) ==
  args.target_org = None \/ school_info.org_name[i] = args.target_org

\* C1: in one call of get_school_timetable, get_school_schedule is called at
\* most once, and when it is called its (school code, organization code) is
\* that of the first match, in resolver order, whose organization name equals
\* the filter (the very first match without a filter); no other match is
\* queried, whether or not the queried one produced events.
C1_SingleSchoolPolicy ==
  InTimetable =>
    /\ Cardinality(CallsOf("get_school_schedule")) <= 1
    /\ \A c \in CallsOf("get_school_schedule") :
         \E i \in 1..school_info.school_num :
           /\ FilterPasses(i)
           /\ \A j \in 1..(i - 1) : ~FilterPasses(j)
           /\ calls[c].args.school_code = school_info.school_code[i]
           /\ calls[c].args.org_code = school_info.org_code[i]

\* the filter selects the second of two matches, the fetch has no events
C1_Witness ==
  /\ entry = "get_school_timetable"
  /\ pc = "done"
  /\ outcome = "returned"
  /\ args.target_org = "orgB"
  /\ school_info.org_name = <<"orgA", "orgB">>
  /\ Cardinality(CallsOf("get_school_schedule")) = 1
  /\ schedule_info.valid
  /\ schedule_info.schedule_num = 0

\* (position in target_grade, event index) pairs whose flag is true
C2_Pairs ==
  {p \in (1..Len(target_grade)) \X (1..schedule_info.schedule_num) :
     schedule_info.valid_grade[target_grade[p[1]] + 1][p[2]]}

C2_Before(q, p) == q[1] < p[1] \/ (q[1] = p[1] /\ q[2] < p[2])

C2_Nth(i) == CHOOSE p \in C2_Pairs : Cardinality({q \in C2_Pairs : C2_Before(q, p)}) = i - 1

C2_Expected ==
  [i \in 1..Cardinality(C2_Pairs) |->
     [school_name |-> school_info.school_name[idx],
      event_date |-> schedule_info.event_date[C2_Nth(i)[2]],
      event_name |-> schedule_info.event_name[C2_Nth(i)[2]],
      event_type |-> schedule_info.event_type[C2_Nth(i)[2]],
      event_content |-> schedule_info.event_content[C2_Nth(i)[2]],
      grade |-> target_grade[C2_Nth(i)[1]] + 1]]

\* C2: when the fetch for the selected school is valid with at least one
\* event, get_school_timetable returns exactly one tuple per (requested grade
\* index, event) pair whose flag is true, grade-major in the caller's grade
\* order and event-minor in fetch order, and no tuple for a false flag.
C2_GradeMajorOutput ==
  (InTimetable /\ tt_returned /\ schedule_info.valid /\ schedule_info.schedule_num > 0)
    => /\ Len(tt_ret) = Cardinality(C2_Pairs)
       /\ \A i \in 1..Len(tt_ret) : tt_ret[i] = C2_Expected[i]

\* grades [7, 1] and two events: grade 6 of the second event comes before
\* grade 1 of the first
C2_Witness ==
  /\ InTimetable
  /\ tt_returned
  /\ target_grade = <<5, 0>>
  /\ schedule_info.schedule_num = 2
  /\ Len(tt_ret) = 2
  /\ tt_ret[1].grade = 6 /\ tt_ret[1].event_date = schedule_info.event_date[2]
  /\ tt_ret[2].grade = 1 /\ tt_ret[2].event_date = schedule_info.event_date[1]

\* events of the fetch that a tuple can stand for
C3_EventsOf(t) ==
  {j \in 1..schedule_info.schedule_num :
     /\ schedule_info.event_date[j] = t.event_date
     /\ schedule_info.event_name[j] = t.event_name
     /\ schedule_info.event_type[j] = t.event_type
     /\ schedule_info.event_content[j] = t.event_content
     /\ schedule_info.valid_grade[t.grade][j]}

\* C3: for every list of grades (repeated values and clamped values such as
\* 0 or 7 included) the result has one tuple per (event, applicable grade)
\* pair: a tuple occurs no more often than there are events it stands for.
C3_OneTuplePerPair ==
  (InTimetable /\ tt_returned) =>
    \A i \in 1..Len(tt_ret) :
      Cardinality({k \in 1..Len(tt_ret) : tt_ret[k] = tt_ret[i]}) <= Cardinality(C3_EventsOf(tt_ret[i]))

C4_FromFails == ~_to_yyyymmdd(run_args.from_date, TRUE).ok

C4_ToFails == ~_to_yyyymmdd(run_args.to_date, TRUE).ok

C4_Details ==
  IF C4_FromFails
  THEN {_to_yyyymmdd(run_args.from_date, TRUE).err}
  ELSE {_to_yyyymmdd(run_args.to_date, TRUE).err}

C4_Normalized(d) == {_to_yyyymmdd(d, pad).value : pad \in BOOLEAN}

\* what holds when _run has run up to its return of the error object or its
\* call of get_school_timetable
C4_AfterDates ==
  IF C4_FromFails \/ C4_ToFails
  THEN /\ pc = "done"
       /\ outcome = "returned"
       /\ run_ret.shape = "dict"
       /\ run_ret.valid = FALSE
       /\ run_ret.message[1] = "date format error"
       /\ run_ret.message[2] \in C4_Details
       /\ run_ret.schedules = <<>>
       /\ calls = <<>>
  ELSE /\ pc = "get_school_timetable"
       /\ Len(calls) = 1
       /\ calls[1].fn = "get_school_timetable"
       /\ calls[1].args.from_date \in C4_Normalized(run_args.from_date)
       /\ calls[1].args.to_date \in C4_Normalized(run_args.to_date)

\* where _run has just returned the error object or called
\* get_school_timetable
C4_AtDates == pc = "get_school_timetable" \/ run_ret.shape = "dict"

\* afterwards: the one call of get_school_timetable is the first call, and
\* its result is _run's result
C4_AfterCall ==
  /\ calls # <<>>
  /\ calls[1] = Call("get_school_timetable", args)
  /\ CallsOf("get_school_timetable") = {1}
  /\ (outcome = "returned" =>
        /\ tt_returned
        /\ run_ret.shape = "list"
        /\ run_ret.items = tt_ret)

C4_Inv ==
  entry = "_run" =>
    /\ C4_AtDates => C4_AfterDates
    /\ ~C4_AtDates => C4_AfterCall
    /\ run_ret.shape = "dict" => http = <<>>

\* the arguments of _run and of its call of get_school_timetable stay
C4_Step == entry = "_run" => (run_args' = run_args /\ args' = args /\ calls[1]' = calls[1])

\* C4: in _run, when normalizing from_date or to_date fails the call returns
\* {valid: false, message: <date error detail>, schedules: []} and none of
\* get_school_timetable, get_school_info, get_school_schedule is called; when
\* both normalize, get_school_timetable is called with the normalized dates
\* and _run returns exactly the sequence it returned.
C4_DateErrorObject == []C4_Inv /\ [][C4_Step]_vars

\* from_date normalizes, to_date does not
C4_Witness ==
  /\ entry = "_run"
  /\ run_ret.shape = "dict"
  /\ calls = <<>>
  /\ ~C4_FromFails
  /\ C4_ToFails

InfoReturned ==
  /\ CallsOf("get_school_info") # {}
  /\ pc # "get_school_info"
  /\ outcome # "raised"

\* C5: with no service key, get_school_info returns valid=false with the
\* fixed missing-credential message and no matches, and no HTTP request is
\* issued by any function during the whole invocation.
C5_MissingCredential ==
  SERVICE_KEY = "" =>
    /\ http = <<>>
    /\ outcome # "raised"
    /\ InfoReturned =>
         /\ school_info.valid = FALSE
         /\ school_info.message = MISSING_KEY_MESSAGE
         /\ school_info.school_num = 0
         /\ school_info.school_name = <<>>
         /\ school_info.school_code = <<>>
         /\ school_info.org_name = <<>>
         /\ school_info.org_code = <<>>

\* _run went through get_school_timetable and get_school_info without a key
C5_Witness ==
  /\ SERVICE_KEY = ""
  /\ entry = "_run"
  /\ pc = "done"
  /\ run_ret.shape = "list"
  /\ InfoReturned

\* the payload the last get_school_info call parsed has no 'row' key
C6_RowKeyMissing ==
  /\ entry = "get_school_info"
  /\ pc = "done"
  /\ outcome = "returned"
  /\ Len(api) = 1
  /\ api[1].kind = "payload"
  /\ api[1].top \in {"key_missing", "row_missing"}

\* C6: a school-lookup response without an error code and without the `row`
\* key makes get_school_info return valid=false with no matches and a
\* diagnostic message.
C6_MissingRowIsInvalid ==
  C6_RowKeyMissing =>
    /\ school_info.valid = FALSE
    /\ school_info.school_num = 0
    /\ school_info.school_name = <<>>
    /\ school_info.message = "Error parsing school info"

ScheduleReturned ==
  /\ CallsOf("get_school_schedule") # {}
  /\ pc # "get_school_schedule"
  /\ outcome # "raised"

\* the lengths of the event lists and of the six valid_grade lists
C7_Lengths ==
  {Len(schedule_info.event_date), Len(schedule_info.event_name),
   Len(schedule_info.event_type), Len(schedule_info.event_content)}
  \cup {Len(schedule_info.valid_grade[g]) : g \in 1..NUM_GRADES}

\* C7: a result of get_school_schedule never carries partial data: when
\* mapping a row fails after earlier rows were mapped the result is
\* valid=false with all event lists and the six valid_grade lists empty, so
\* schedule_num is the length of every list of every returned result.
C7_NoPartialData ==
  ScheduleReturned =>
    /\ C7_Lengths = {schedule_info.schedule_num}
    /\ (~schedule_info.valid => C7_Lengths = {0})

\* C8: every call of get_school_info and get_school_schedule ends by
\* returning a structured result whatever the API does, so no invocation of
\* them, of get_school_timetable or of _run ends with an exception.
C8_AlwaysReturns ==
  /\ outcome # "raised"
  /\ (pc = "done" => outcome = "returned")

C10_SomePasses == \E i \in 1..school_info.school_num : FilterPasses(i)

\* C10: get_school_timetable returns the empty sequence when the resolver
\* result is invalid or has no match (get_school_schedule is then never
\* called), when no match passes the organization filter, and when the
\* single fetch is invalid or has no event (no further match is tried).
C10_EmptyResults ==
  (InTimetable /\ tt_returned) =>
    /\ (~school_info.valid \/ school_info.school_num = 0)
         => (tt_ret = <<>> /\ CallsOf("get_school_schedule") = {})
    /\ ~C10_SomePasses
         => (tt_ret = <<>> /\ CallsOf("get_school_schedule") = {})
    /\ (CallsOf("get_school_schedule") # {} /\ (~schedule_info.valid \/ schedule_info.schedule_num = 0))
         => (tt_ret = <<>> /\ Cardinality(CallsOf("get_school_schedule")) = 1)

\* two matches pass the filter, the fetch for the first one is invalid
C10_Witness ==
  /\ InTimetable
  /\ tt_returned
  /\ school_info.school_num = 2
  /\ \A i \in 1..2 : FilterPasses(i)
  /\ Cardinality(CallsOf("get_school_schedule")) = 1
  /\ ~schedule_info.valid
  /\ tt_ret = <<>>

(***************************************************************************)
(* Properties of the date normalizer (DateSpec)                            *)
(***************************************************************************)
\* the number a digit string writes, 0 for the empty string
RECURSIVE Num(_)
Num(text) ==
  Bind(text, LAMBDA s :
    IF s = <<>> THEN 0 ELSE 10 * Num(SubSeq(s, 1, Len(s) - 1)) + DigitVal(s[Len(s)]))

C9_Done == entry = "_to_yyyymmdd" /\ pc = "done"

C9_DigitCount == Len(OnlyDigits(date_in))

\* the year, month and day the text was put together from are not a date
C9_NonCalendrical ==
  ~ValidDate(Num(date_parts.y), Num(date_parts.m), Num(date_parts.d))

C9_EightDigitDate(v) ==
  /\ Len(v) = 8
  /\ isdigit(v)
  /\ ValidDate(Num(SubSeq(v, 1, 4)), Num(SubSeq(v, 5, 6)), Num(SubSeq(v, 7, 8)))

C9_FirstEightAreDate ==
  /\ C9_DigitCount >= 8
  /\ C9_EightDigitDate(SubSeq(OnlyDigits(date_in), 1, 8))

\* the text is a separated date or the Korean long form of a real date
C9_WrittenDate ==
  /\ date_parts.form \in {"dash", "slash", "dot", "korean", "korean spaced"}
  /\ ~C9_NonCalendrical

\* v is digits only, its last four digits are month and day and the digits
\* before them the year of a valid date
C9_DenotesDate(v) ==
  /\ isdigit(v)
  /\ Len(v) >= 5
  /\ ValidDate(Num(SubSeq(v, 1, Len(v) - 4)),
               Num(SubSeq(v, Len(v) - 3, Len(v) - 2)),
               Num(SubSeq(v, Len(v) - 1, Len(v))))

====
